---- MODULE Spec2Model ----
(***************************************************************************)
(* A model of the data-access engine of appstoreconnectapi (src/test.py):  *)
(* the self-refreshing bearer token, the retrying request executor, the    *)
(* folding of "included" records into page data and the paginating         *)
(* iterator.                                                               *)
(***************************************************************************)
EXTENDS Integers, Sequences, FiniteSets, TLC

VARIABLES
    clock,      \* int(time.time())
    keyOk,      \* whether jwt.encode accepts self.key
    expires,    \* BearerToken.expires
    token,      \* BearerToken._token
    minted,     \* number of tokens jwt.encode has produced
    tokRes,     \* outcome of the latest read of BearerToken.token
    reqState,   \* position of AppStoreConnectApi.request: idle/running/returned/raised
    method,     \* request's method argument
    url,        \* request's resolved url
    params,     \* kwargs["params"] of the running request
    retry,      \* request's retry argument
    attempt,    \* the for loop's index: attempts completed so far
    sent,       \* requests handed to the transport by the current call
    resp,       \* the latest outcome of session.request
    err,        \* the exception the call ended with
    auth,       \* the Authorization token of the latest request sent
    json,       \* kwargs["json"] of the running request
    op,         \* the Object.create / Object.update call that made the request
    ret,        \* what that call returned or raised
    page,       \* the decoded document fold_included_into_page_data works on
    orig,       \* that document as it was decoded
    folds,      \* calls of fold_included_into_page_data on page so far
    foldErr,    \* whether the latest fold raised KeyError
    chain,      \* the pages the server holds for the listed path, in cursor order
    itState,    \* the generator of get_data_iter: none/suspended/fetching/exhausted/finished/raised
    itView,     \* who consumes it: get_data ("first"), get_all_data ("all"), a caller's loop ("iter")
    itUrl,      \* the generator's path_or_url
    itKw,       \* the generator's kwargs: params (until popped) and retry
    fetches,    \* calls of self.get the generator has made
    out,        \* the records yielded so far, concatenated
    itErr,      \* the exception that ended the generator
    asked,      \* next() calls the consumer has made on the generator
    tpc,        \* per thread: its position in the token property
    tnow,       \* per thread: its local now
    tpay,       \* per thread: the exp of the payload it built
    tret,       \* per thread: what its read returned
    resource_types, \* resources.py: the module-level registry
    types,      \* test.py: Object.types
    typeOf,     \* per class: its type attribute
    regRes,     \* the latest registration and its outcome
    record,     \* the raw record handed to Object.__init__
    cls,        \* the class being instantiated
    bound,      \* the instance's fields after __init__
    bindErr,    \* the exception __init__ ended with
    readAt,     \* now of the latest timed read of the token
    rdata,      \* resources.py: the Resource's _data
    getter,     \* the accessor the latest relationship read returned
    calls,      \* calls of that accessor so far
    relFetches, \* fetches through the client's related link so far
    accRes      \* the outcome of the latest attribute read or accessor call

tokenVars == <<clock, keyOk, expires, token, minted, tokRes>>
reqVars == <<reqState, method, url, params, retry, attempt, sent, resp, err, auth, json, op, ret>>
foldVars == <<page, orig, folds, foldErr>>
iterVars == <<chain, itState, itView, itUrl, itKw, fetches, out, itErr, asked>>
thrVars == <<tpc, tnow, tpay, tret>>
regVars == <<resource_types, types, typeOf, regRes>>
bindVars == <<record, cls, bound, bindErr>>
resVars == <<rdata, getter, calls, relFetches, accRes>>
objVars == <<thrVars, regVars, bindVars, readAt, resVars>>
vars == <<clock, keyOk, expires, token, minted, tokRes,
          reqState, method, url, params, retry, attempt, sent, resp, err, auth,
          json, op, ret,
          page, orig, folds, foldErr,
          chain, itState, itView, itUrl, itKw, fetches, out, itErr, asked,
          tpc, tnow, tpay, tret, resource_types, types, typeOf, regRes,
          record, cls, bound, bindErr,
          readAt, rdata, getter, calls, relFetches, accRes>>

\* Python's None, and a JSON null
None == [kind |-> "None"]

----------------------------------------------------------------------------
(* Bounds of the model.                                                    *)

MaxTime == 2400      \* the clock stops advancing here
MaxRetry == 3        \* largest explicit retry argument
MaxIncluded == 2     \* longest "included" list
MaxRefs == 2         \* longest list of references in one relationship
MaxRecords == 2      \* longest "data" list of a folded page
MaxFolds == 2        \* folds of one document
MaxPages == 2        \* longest chain of pages

----------------------------------------------------------------------------
(* BearerToken                                                             *)

Window == 1200

\* ES256 signatures are randomized: two encodings of one payload may differ.
Sigs == {"s1", "s2"}

\* the clock advances by half a window, or by one second more than that
TickSteps == {Window \div 2, Window \div 2 + 1}

\* jwt.encode(payload, key, headers): the claims that vary, and the signature
jwt_encode(exp, sig) == [kind |-> "jwt", exp |-> exp, sig |-> sig]

\* the expiry test with >= for >: a token is dropped in its last second
Expired_ge(now) == now >= expires

\* the expiry test one second late: a token is kept a second past its expiry
Expired_late(now) == now > expires + 1

\* the expiry test of a read that always refreshes
Expired_always(now) == now >= 0

Expired(now) == now > expires

\* BearerToken.token: one read of the property; tokRes' is the value returned
\* or the exception raised.
TokenRead ==
    LET now == clock IN
    IF Expired(now)
    THEN /\ expires' = now + Window
         /\ IF keyOk
            THEN \E sig \in Sigs :
                    /\ token' = jwt_encode(now + Window, sig)
                    /\ minted' = minted + 1
                    /\ tokRes' = [kind |-> "value", value |-> token']
            ELSE /\ UNCHANGED <<token, minted>>
                 /\ tokRes' = [kind |-> "raise", exc |-> "SigningError"]
    ELSE /\ UNCHANGED <<expires, token, minted>>
         /\ tokRes' = [kind |-> "value", value |-> token]

\* a caller reads api.session.auth.token
ReadToken ==
    /\ TokenRead
    /\ UNCHANGED <<clock, keyOk>>
    /\ UNCHANGED reqVars
    /\ UNCHANGED foldVars
    /\ UNCHANGED iterVars
    /\ UNCHANGED objVars

\* a read of the token property by a caller that notes the time
TimedRead ==
    /\ TokenRead
    /\ readAt' = clock
    /\ UNCHANGED <<clock, keyOk>>
    /\ UNCHANGED <<reqVars, foldVars, iterVars>>
    /\ UNCHANGED <<thrVars, regVars, bindVars, resVars>>

\* time passes
Tick ==
    /\ \E d \in TickSteps :
          /\ clock + d <= MaxTime
          /\ clock' = clock + d
    /\ UNCHANGED <<keyOk, expires, token, minted, tokRes>>
    /\ UNCHANGED reqVars
    /\ UNCHANGED foldVars
    /\ UNCHANGED iterVars
    /\ UNCHANGED objVars

InitToken ==
    /\ clock = 1
    /\ keyOk \in BOOLEAN
    /\ expires = 0
    /\ token = None
    /\ minted = 0
    /\ tokRes = None
    /\ readAt = 0

----------------------------------------------------------------------------
(* JSON:API documents                                                      *)
(*                                                                         *)
(* A resource object is [type, id, attrs]; attrs = "absent" is the bare    *)
(* {type, id} reference. A primary record carries its relationships as a   *)
(* sequence of [name, hasData, data] in the order of the JSON object.      *)

SeqsUpTo(S, n) == UNION {[1..k -> S] : k \in 0..n}

Obj(t, i, a) == [type |-> t, id |-> i, attrs |-> a]

JNull == [kind |-> "null"]
JDict(o) == [kind |-> "dict", obj |-> o]
JList(os) == [kind |-> "list", items |-> os]

\* the references a relationship may hold
Refs == {Obj("T", 5, "absent"), Obj("T", 6, "absent")}

\* the records a server may include
IncObjs == {Obj("T", 5, "x"), Obj("T", 5, "y"), Obj("U", 6, "x")}

RelDatas == {JNull} \cup {JDict(r) : r \in Refs} \cup {JList(rs) : rs \in SeqsUpTo(Refs, MaxRefs)}

Rels(name) ==
    {[name |-> name, hasData |-> FALSE, data |-> JNull]}
    \cup {[name |-> name, hasData |-> TRUE, data |-> d] : d \in RelDatas}

Rec(t, i, rels) == [type |-> t, id |-> i, relationships |-> rels]

NoLinks == [kind |-> "absent"]

Doc(data, hasInc, inc, links) ==
    [data |-> data, hasIncluded |-> hasInc, included |-> inc, links |-> links]

EmptyDoc == Doc(JList(<<>>), FALSE, <<>>, NoLinks)

----------------------------------------------------------------------------
(* fold_included_into_page_data                                            *)

\* includes[obj["type"]][obj["id"]] = obj, for obj in page["included"]: a
\* later record replaces an earlier one of the same type and id
BuildIncludes(included) ==
    LET keys == {<<included[k].type, included[k].id>> : k \in DOMAIN included}
        last(key) == CHOOSE k \in DOMAIN included :
                        /\ <<included[k].type, included[k].id>> = key
                        /\ \A j \in DOMAIN included :
                              <<included[j].type, included[j].id>> = key => j <= k
    IN [key \in keys |-> included[last(key)]]

\* get_include: includes[obj["type"]][obj["id"]], KeyError when missing
HasInclude(includes, o) == <<o.type, o.id>> \in DOMAIN includes
get_include(includes, o) == includes[<<o.type, o.id>>]

\* the loop body with the list comprehension over rel_data[1:]
fold_rel_skips_first(includes, rel) ==
    LET rel_data == IF rel.hasData THEN rel.data ELSE JNull IN
    IF rel_data.kind = "dict"
    THEN IF HasInclude(includes, rel_data.obj)
         THEN [raised |-> FALSE,
               rel |-> [rel EXCEPT !.hasData = TRUE,
                                   !.data = JDict(get_include(includes, rel_data.obj))]]
         ELSE [raised |-> TRUE, rel |-> rel]
    ELSE IF rel_data.kind = "list"
    THEN LET rest == IF Len(rel_data.items) = 0 THEN <<>> ELSE Tail(rel_data.items) IN
         IF \A k \in DOMAIN rest : HasInclude(includes, rest[k])
         THEN [raised |-> FALSE,
               rel |-> [rel EXCEPT !.hasData = TRUE,
                                   !.data = JList([k \in DOMAIN rest |->
                                                   get_include(includes, rest[k])])]]
         ELSE [raised |-> TRUE, rel |-> rel]
    ELSE [raised |-> FALSE, rel |-> rel]

\* the body of the loop over obj["relationships"].values()
fold_rel(includes, rel) ==
    LET rel_data == IF rel.hasData THEN rel.data ELSE JNull IN
    IF rel_data.kind = "dict"
    THEN IF HasInclude(includes, rel_data.obj)
         THEN [raised |-> FALSE,
               rel |-> [rel EXCEPT !.hasData = TRUE,
                                   !.data = JDict(get_include(includes, rel_data.obj))]]
         ELSE [raised |-> TRUE, rel |-> rel]
    ELSE IF rel_data.kind = "list"
    THEN IF \A k \in DOMAIN rel_data.items : HasInclude(includes, rel_data.items[k])
         THEN [raised |-> FALSE,
               rel |-> [rel EXCEPT !.hasData = TRUE,
                                   !.data = JList([k \in DOMAIN rel_data.items |->
                                                   get_include(includes, rel_data.items[k])])]]
         ELSE [raised |-> TRUE, rel |-> rel]
    ELSE [raised |-> FALSE, rel |-> rel]

\* for rel in obj["relationships"].values(), from the j-th on
RECURSIVE fold_rels(_, _, _)
fold_rels(includes, rels, j) ==
    IF j > Len(rels)
    THEN [raised |-> FALSE, rels |-> rels]
    ELSE LET r == fold_rel(includes, rels[j]) IN
         IF r.raised
         THEN [raised |-> TRUE, rels |-> rels]
         ELSE fold_rels(includes, [rels EXCEPT ![j] = r.rel], j + 1)

\* for obj in page["data"], from the i-th on
RECURSIVE fold_items(_, _, _)
fold_items(includes, items, i) ==
    IF i > Len(items)
    THEN [raised |-> FALSE, items |-> items]
    ELSE LET r == fold_rels(includes, items[i].relationships, 1)
             items2 == [items EXCEPT ![i].relationships = r.rels]
         IN IF r.raised
            THEN [raised |-> TRUE, items |-> items2]
            ELSE fold_items(includes, items2, i + 1)

\* the fold without the test of the shape of data: a single object is
\* folded like a list of one
fold_included_into_page_data_any_shape(p) ==
    IF ~p.hasIncluded
    THEN [raised |-> FALSE, page |-> p]
    ELSE IF p.data.kind = "list"
    THEN LET r == fold_items(BuildIncludes(p.included), p.data.items, 1) IN
         [raised |-> r.raised, page |-> [p EXCEPT !.data = JList(r.items)]]
    ELSE LET r == fold_items(BuildIncludes(p.included), <<p.data.obj>>, 1) IN
         [raised |-> r.raised, page |-> [p EXCEPT !.data = JDict(r.items[1])]]

\* fold_included_into_page_data(page): the page as the call leaves it, and
\* whether the call raised KeyError
fold_included_into_page_data(p) ==
    IF ~p.hasIncluded \/ p.data.kind # "list"
    THEN [raised |-> FALSE, page |-> p]
    ELSE LET r == fold_items(BuildIncludes(p.included), p.data.items, 1) IN
         [raised |-> r.raised, page |-> [p EXCEPT !.data = JList(r.items)]]

\* the page processor folds the document it holds
Fold ==
    /\ folds < MaxFolds
    /\ LET r == fold_included_into_page_data(page) IN
          /\ page' = r.page
          /\ foldErr' = r.raised
    /\ folds' = folds + 1
    /\ UNCHANGED orig
    /\ UNCHANGED tokenVars
    /\ UNCHANGED reqVars
    /\ UNCHANGED iterVars
    /\ UNCHANGED objVars

\* the relationships with no data or one reference
OneRefRels(name) ==
    {[name |-> name, hasData |-> FALSE, data |-> JNull]}
    \cup {[name |-> name, hasData |-> TRUE, data |-> JDict(r)] : r \in Refs}

\* the documents folded: a list of records with one single-reference
\* relationship each, one record with one or two relationships of any shape,
\* or a single object
FoldDatas ==
    {JList([i \in DOMAIN rs |-> Rec("P", i, <<rs[i]>>)]) : rs \in SeqsUpTo(OneRefRels("a"), MaxRecords)}
    \cup {JList(<<Rec("P", 1, <<r>>)>>) : r \in Rels("a")}
    \cup {JList(<<Rec("P", 1, <<r1, r2>>)>>) : r1 \in Rels("a"), r2 \in Rels("b")}
    \cup {JDict(Rec("P", 1, <<r>>)) : r \in Rels("a")}
FoldDocs ==
    {Doc(d, FALSE, <<>>, NoLinks) : d \in FoldDatas}
    \cup {Doc(d, TRUE, inc, NoLinks) : d \in FoldDatas, inc \in SeqsUpTo(IncObjs, MaxIncluded)}

InitFoldIdle ==
    /\ page = EmptyDoc
    /\ orig = EmptyDoc
    /\ folds = 0
    /\ foldErr = FALSE

----------------------------------------------------------------------------
(* AppStoreConnectApi.request                                              *)

DefaultRetry == 10

Methods == {"GET", "POST", "PATCH", "DELETE"}

Host == "api.appstoreconnect.apple.com"
base_url == <<"https://", Host>>

\* A path or url is a sequence of pieces; "https://" and "/" are pieces of
\* their own, so that startswith and lstrip act on them.
startswith_https(p) == Len(p) > 0 /\ p[1] = "https://"

RECURSIVE lstrip_slash(_)
lstrip_slash(p) ==
    IF Len(p) > 0 /\ p[1] = "/" THEN lstrip_slash(Tail(p)) ELSE p

\* url = path_or_url if it starts with https://, else base_url/path
make_url(path_or_url) ==
    IF startswith_https(path_or_url)
    THEN path_or_url
    ELSE base_url \o <<"/">> \o lstrip_slash(path_or_url)

Paths == {<<"v1/devices">>, <<"/", "v1/devices">>, <<"https://", Host, "/", "v1/devices">>}

\* the X-Rate-Limit header: absent, or a list of name:value entries such as
\* "user-hour-lim:5;user-hour-rem:0;"
RateEntry(n, v) == [name |-> n, val |-> v]
NoHeader == [present |-> FALSE, entries |-> <<>>]
RateHeader(es) == [present |-> TRUE, entries |-> es]
Headers ==
    {NoHeader,
     RateHeader(<<RateEntry("user-hour-lim", 5)>>),
     RateHeader(<<RateEntry("user-hour-lim", 5), RateEntry("user-hour-rem", 0)>>),
     RateHeader(<<RateEntry("user-hour-lim", 5), RateEntry("user-hour-rem", 5)>>)}

Statuses == {200, 401, 404, 429, 500}
Timeout == [kind |-> "timeout"]
Response(st, h, b) == [kind |-> "response", status |-> st, header |-> h, body |-> b]

\* what the transport may answer to one request for u
Outcomes(body) == {Timeout} \cup {Response(st, h, body) : st \in Statuses, h \in Headers}

\* resp.raise_for_status() raises HTTPError
raises_for_status(r) == r.status >= 400 /\ r.status < 600

\* re.search(r"user-hour-rem:(\d+)", header): the first entry that matches,
\* as [found, rem]
search_rem(entries) ==
    LET hits == {k \in DOMAIN entries : entries[k].name = "user-hour-rem"} IN
    IF hits = {}
    THEN [found |-> FALSE, rem |-> 0]
    ELSE [found |-> TRUE,
          rem |-> entries[CHOOSE k \in hits : \A j \in hits : k <= j].val]

RetryStatuses == {401, 429, 500}

\* the except clause without the look at user-hour-rem
on_http_error_ignores_rem(r) ==
    IF ~r.header.present
    THEN "KeyError"
    ELSE IF r.status \notin RetryStatuses
         THEN "HTTPError"
         ELSE "retry"

\* the except requests.HTTPError clause: "retry", or the exception that
\* leaves the call
on_http_error(r) ==
    IF ~r.header.present
    THEN "KeyError"
    ELSE LET m == search_rem(r.header.entries) IN
         IF m.found /\ ~(m.rem > 0)
         THEN "HTTPError"
         ELSE IF r.status \notin RetryStatuses
              THEN "HTTPError"
              ELSE "retry"

\* one pass of the try statement on the transport's outcome r: "return",
\* "retry", or the exception that leaves the call
on_outcome(r) ==
    IF r.kind = "timeout"
    THEN "retry"
    ELSE IF raises_for_status(r)
         THEN on_http_error(r)
         ELSE "return"

\* request(method, path_or_url, retry=n, params=kw): the call up to its first
\* attempt; with no attempt to make the for loop falls through at once
StartRequest(m, path_or_url, kw, n) ==
    /\ method' = m
    /\ url' = make_url(path_or_url)
    /\ params' = kw
    /\ retry' = n
    /\ attempt' = 0
    /\ sent' = 0
    /\ resp' = None
    /\ auth' = None
    /\ IF n > 0
       THEN reqState' = "running" /\ err' = None
       ELSE reqState' = "raised" /\ err' = [kind |-> "RetryError"]

\* one iteration of for attempt in range(retry): the session signs the
\* request with the token, sends it, and the outcome is handled
AttemptStep(body) ==
    /\ reqState = "running"
    /\ TokenRead
    /\ UNCHANGED <<clock, keyOk, method, url, params, retry>>
    /\ IF tokRes'.kind = "raise"
       THEN /\ reqState' = "raised"
            /\ err' = [kind |-> tokRes'.exc]
            /\ UNCHANGED <<attempt, sent, resp, auth>>
       ELSE /\ auth' = tokRes'.value
            /\ sent' = sent + 1
            /\ \E r \in Outcomes(body) :
                  /\ resp' = r
                  /\ LET v == on_outcome(r) IN
                     IF v = "return"
                     THEN /\ reqState' = "returned"
                          /\ UNCHANGED <<attempt, err>>
                     ELSE IF v = "retry"
                     THEN /\ attempt' = attempt + 1
                          /\ IF attempt + 1 < retry
                             THEN reqState' = "running" /\ UNCHANGED err
                             ELSE reqState' = "raised" /\ err' = [kind |-> "RetryError"]
                     ELSE /\ reqState' = "raised"
                          /\ err' = [kind |-> v]
                          /\ UNCHANGED attempt

Retries == (0..MaxRetry) \cup {DefaultRetry}

\* a caller calls api.request / get / post / patch / delete
Call ==
    /\ reqState # "running"
    /\ \E m \in Methods, p \in Paths, n \in Retries : StartRequest(m, p, None, n)
    /\ json' = None
    /\ op' = None
    /\ ret' = None
    /\ UNCHANGED tokenVars
    /\ UNCHANGED foldVars
    /\ UNCHANGED iterVars
    /\ UNCHANGED objVars

\* the running call makes its next attempt
Attempt ==
    /\ AttemptStep(None)
    /\ UNCHANGED foldVars
    /\ UNCHANGED iterVars
    /\ UNCHANGED <<json, op, ret>>
    /\ UNCHANGED objVars

----------------------------------------------------------------------------
(* The server's pages                                                      *)

ListPath == <<"v1/things">>

\* the next link the server puts on page k
NextLink(k) == <<"https://", Host, "/", "v1/things?cursor=", ToString(k + 1)>>

\* the url of page k
PageUrl(k) == IF k = 1 THEN make_url(ListPath) ELSE NextLink(k - 1)

LinksNext(k) == [kind |-> "links", next |-> [kind |-> "url", url |-> NextLink(k)]]
\* a last page: no links member, links without next, or next: null
LastLinks == {NoLinks, [kind |-> "links", next |-> [kind |-> "absent"]],
              [kind |-> "links", next |-> JNull]}

\* page k of a chain: records 10k+1 .. 10k+size; "plain" has no included
\* member, "matched" includes what its records reference, "dangling" does not
PageKinds == {"plain", "matched", "dangling"}
PageSizes == {2}
PageRel(kind) ==
    IF kind = "plain" THEN [name |-> "a", hasData |-> FALSE, data |-> JNull]
    ELSE IF kind = "matched" THEN [name |-> "a", hasData |-> TRUE, data |-> JDict(Obj("T", 5, "absent"))]
    ELSE [name |-> "a", hasData |-> TRUE, data |-> JDict(Obj("T", 6, "absent"))]
PageDoc(k, size, kind, links) ==
    Doc(JList([j \in 1..size |-> Rec("P", 10 * k + j, <<PageRel(kind)>>)]),
        kind # "plain",
        IF kind = "plain" THEN <<>> ELSE <<Obj("T", 5, "x")>>,
        links)

PageShapes == [size : PageSizes, kind : PageKinds]
Chains ==
    UNION {{[k \in 1..n |-> PageDoc(k, sh[k].size, sh[k].kind,
                                    IF k < n THEN LinksNext(k) ELSE last)] :
              sh \in [1..n -> PageShapes], last \in LastLinks} : n \in 1..MaxPages}

\* resp.json() of a successful GET of u: the page the server holds there
ServerBody(u) ==
    LET ks == {k \in DOMAIN chain : PageUrl(k) = u} IN
    IF ks = {} THEN EmptyDoc ELSE chain[CHOOSE k \in ks : TRUE]

----------------------------------------------------------------------------
(* get_data_iter, get_data, get_all_data                                   *)

NotGiven == [given |-> FALSE]
Given(v) == [given |-> TRUE, val |-> v]

\* ",".join(val)
join(val) == [csv |-> val]

\* the truth value Python gives an optional argument
truthy_seq(arg) == arg.given /\ Len(arg.val) > 0
truthy_int(arg) == arg.given /\ arg.val # 0

\* params = kwargs.setdefault("params", {}) and the three updates
build_params(fields, include, limit) ==
    [kind |-> "dict",
     fields |-> IF truthy_seq(fields)
                THEN Given([k \in DOMAIN fields.val |->
                              [key |-> <<"fields", fields.val[k].key>>,
                               value |-> join(fields.val[k].val)]])
                ELSE NotGiven,
     include |-> IF truthy_seq(include) THEN Given(join(include.val)) ELSE NotGiven,
     limit |-> IF truthy_int(limit) THEN Given(limit.val) ELSE NotGiven]

\* the fields, include and limit arguments callers pass
QueryArgs ==
    {[fields |-> NotGiven, include |-> NotGiven, limit |-> NotGiven],
     [fields |-> Given(<<>>), include |-> Given(<<>>), limit |-> Given(0)],
     [fields |-> Given(<<[key |-> "things", val |-> <<"name", "udid">>]>>),
      include |-> Given(<<"a">>), limit |-> Given(200)]}

\* the retry keyword callers pass through kwargs
IterRetries == {NotGiven, Given(1)}

\* page.get("links", {}).get("next")
next_link(p) ==
    IF p.links.kind = "absent" THEN None
    ELSE IF p.links.next.kind = "url" THEN p.links.next
    ELSE None

\* while path_or_url: a url is a non-empty string
truthy_url(u) == u.kind = "url" /\ Len(u.url) > 0

\* get_data, get_all_data or a loop over get_data_iter is called: the
\* generator is created and has not run yet
IterStart ==
    /\ itState = "none"
    /\ reqState = "idle"
    /\ \E c \in Chains, v \in {"first", "all", "iter"}, q \in QueryArgs, n \in IterRetries :
          /\ chain' = c
          /\ itView' = v
          /\ itUrl' = [kind |-> "url", url |-> ListPath]
          /\ itKw' = [hasParams |-> TRUE,
                      params |-> build_params(q.fields, q.include, q.limit),
                      retry |-> n]
    /\ itState' = "suspended"
    /\ fetches' = 0
    /\ out' = <<>>
    /\ itErr' = None
    /\ asked' = 0
    /\ UNCHANGED tokenVars
    /\ UNCHANGED reqVars
    /\ UNCHANGED foldVars
    /\ UNCHANGED objVars

\* the consumer asks for the next page: the loop test, and self.get(...) up
\* to its first attempt
IterNext ==
    /\ itState = "suspended"
    /\ IF truthy_url(itUrl)
       THEN /\ StartRequest("GET", itUrl.url,
                            IF itKw.hasParams THEN itKw.params ELSE None,
                            IF itKw.retry.given THEN itKw.retry.val ELSE DefaultRetry)
            /\ json' = None
            /\ op' = None
            /\ ret' = None
            /\ fetches' = fetches + 1
            /\ itState' = "fetching"
            /\ UNCHANGED <<chain, itView, itUrl, itKw, out, itErr>>
       ELSE /\ itState' = "exhausted"
            /\ UNCHANGED <<chain, itView, itUrl, itKw, fetches, out, itErr>>
            /\ UNCHANGED reqVars
    /\ asked' = asked + 1
    /\ UNCHANGED tokenVars
    /\ UNCHANGED foldVars
    /\ UNCHANGED objVars

\* the loop body without kwargs.pop("params", None)
IterYield_keeps_params(r) ==
    LET f == fold_included_into_page_data(r.body) IN
    /\ page' = f.page
    /\ orig' = r.body
    /\ folds' = 1
    /\ foldErr' = f.raised
    /\ IF f.raised
       THEN /\ itState' = "raised"
            /\ itErr' = [kind |-> "KeyError"]
            /\ UNCHANGED <<itUrl, itKw, out>>
       ELSE /\ itUrl' = next_link(f.page)
            /\ UNCHANGED itKw
            /\ out' = out \o (IF f.page.data.kind = "list"
                              THEN f.page.data.items
                              ELSE <<f.page.data.obj>>)
            /\ itState' = IF itView = "first" THEN "finished" ELSE "suspended"
            /\ UNCHANGED itErr

\* the loop body when get_data keeps consuming after the first page
IterYield_first_view_continues(r) ==
    LET f == fold_included_into_page_data(r.body) IN
    /\ page' = f.page
    /\ orig' = r.body
    /\ folds' = 1
    /\ foldErr' = f.raised
    /\ IF f.raised
       THEN /\ itState' = "raised"
            /\ itErr' = [kind |-> "KeyError"]
            /\ UNCHANGED <<itUrl, itKw, out>>
       ELSE /\ itUrl' = next_link(f.page)
            /\ itKw' = [itKw EXCEPT !.hasParams = FALSE]
            /\ out' = out \o (IF f.page.data.kind = "list"
                              THEN f.page.data.items
                              ELSE <<f.page.data.obj>>)
            /\ itState' = "suspended"
            /\ UNCHANGED itErr

\* after self.get returned resp: decode, fold, take the next link, drop
\* params, yield page["data"]
IterYield(r) ==
    LET f == fold_included_into_page_data(r.body) IN
    /\ page' = f.page
    /\ orig' = r.body
    /\ folds' = 1
    /\ foldErr' = f.raised
    /\ IF f.raised
       THEN /\ itState' = "raised"
            /\ itErr' = [kind |-> "KeyError"]
            /\ UNCHANGED <<itUrl, itKw, out>>
       ELSE /\ itUrl' = next_link(f.page)
            /\ itKw' = [itKw EXCEPT !.hasParams = FALSE]
            /\ out' = out \o (IF f.page.data.kind = "list"
                              THEN f.page.data.items
                              ELSE <<f.page.data.obj>>)
            /\ itState' = IF itView = "first" THEN "finished" ELSE "suspended"
            /\ UNCHANGED itErr

\* one attempt of the generator's self.get; when the call returns, the page
\* is processed and yielded, when it raises, the generator ends with it
IterAttempt ==
    /\ itState = "fetching"
    /\ AttemptStep(ServerBody(url))
    /\ IF reqState' = "returned"
       THEN IterYield(resp')
       ELSE /\ IF reqState' = "raised"
               THEN itState' = "raised" /\ itErr' = err'
               ELSE UNCHANGED <<itState, itErr>>
            /\ UNCHANGED <<itUrl, itKw, out>>
            /\ UNCHANGED foldVars
    /\ UNCHANGED <<chain, itView, fetches, asked>>
    /\ UNCHANGED <<json, op, ret>>
    /\ UNCHANGED objVars

InitIter ==
    /\ chain = <<>>
    /\ itState = "none"
    /\ itView = "first"
    /\ itUrl = None
    /\ itKw = [hasParams |-> FALSE, params |-> None, retry |-> NotGiven]
    /\ fetches = 0
    /\ out = <<>>
    /\ itErr = None
    /\ asked = 0

InitReq ==
    /\ reqState = "idle"
    /\ method = "GET"
    /\ url = <<>>
    /\ params = None
    /\ retry = 0
    /\ attempt = 0
    /\ sent = 0
    /\ resp = None
    /\ err = None
    /\ auth = None
    /\ json = None
    /\ op = None
    /\ ret = None

----------------------------------------------------------------------------
(* BearerToken.token read by two threads                                   *)

Threads == {1, 2}

\* what a step of a thread leaves alone
ThreadFrame ==
    /\ UNCHANGED <<clock, keyOk, tokRes>>
    /\ UNCHANGED <<reqVars, foldVars, iterVars, regVars, bindVars>>
    /\ UNCHANGED <<readAt, resVars>>

\* now = int(time.time())
T_now(t) ==
    /\ tpc[t] \in {"idle", "done"}
    /\ tnow' = [tnow EXCEPT ![t] = clock]
    /\ tpc' = [tpc EXCEPT ![t] = "test"]
    /\ tpay' = [tpay EXCEPT ![t] = 0]
    /\ tret' = [tret EXCEPT ![t] = None]
    /\ UNCHANGED <<expires, token, minted>>

\* if now > self.expires
T_test(t) ==
    /\ tpc[t] = "test"
    /\ tpc' = [tpc EXCEPT ![t] = IF Expired(tnow[t]) THEN "set" ELSE "return"]
    /\ UNCHANGED <<tnow, tpay, tret, expires, token, minted>>

\* self.expires = now + 1200
T_set(t) ==
    /\ tpc[t] = "set"
    /\ expires' = tnow[t] + Window
    /\ tpc' = [tpc EXCEPT ![t] = "payload"]
    /\ UNCHANGED <<tnow, tpay, tret, token, minted>>

\* payload = {..., "exp": self.expires, ...}
T_payload(t) ==
    /\ tpc[t] = "payload"
    /\ tpay' = [tpay EXCEPT ![t] = expires]
    /\ tpc' = [tpc EXCEPT ![t] = "encode"]
    /\ UNCHANGED <<tnow, tret, expires, token, minted>>

\* self._token = jwt.encode(...)
T_encode(t) ==
    /\ tpc[t] = "encode"
    /\ IF keyOk
       THEN /\ \E sig \in Sigs : token' = jwt_encode(tpay[t], sig)
            /\ minted' = minted + 1
            /\ tpc' = [tpc EXCEPT ![t] = "return"]
            /\ UNCHANGED tret
       ELSE /\ tret' = [tret EXCEPT ![t] = [kind |-> "raise", exc |-> "SigningError"]]
            /\ tpc' = [tpc EXCEPT ![t] = "done"]
            /\ UNCHANGED <<token, minted>>
    /\ UNCHANGED <<tnow, tpay, expires>>

\* return self._token
T_return(t) ==
    /\ tpc[t] = "return"
    /\ tret' = [tret EXCEPT ![t] = [kind |-> "value", value |-> token]]
    /\ tpc' = [tpc EXCEPT ![t] = "done"]
    /\ UNCHANGED <<tnow, tpay, expires, token, minted>>

\* a thread runs the next line of the token property
ThreadStep ==
    /\ \E t \in Threads :
          T_now(t) \/ T_test(t) \/ T_set(t) \/ T_payload(t) \/ T_encode(t) \/ T_return(t)
    /\ ThreadFrame

InitThr ==
    /\ tpc = [t \in Threads |-> "idle"]
    /\ tnow = [t \in Threads |-> 0]
    /\ tpay = [t \in Threads |-> 0]
    /\ tret = [t \in Threads |-> None]

----------------------------------------------------------------------------
(* The type registries                                                     *)

TypeNames == {"devices", "profiles"}
Class(c) == [kind |-> "class", name |-> c]
Classes == {Class("Device"), Class("Profile")}

Registration(by, name, c, outcome) ==
    [kind |-> outcome, by |-> by, name |-> name, cls |-> c]

\* resources.py: the decorator without its assert
resource_type_unchecked(name, c) ==
    /\ resource_types' = [resource_types EXCEPT ![name] = c]
    /\ typeOf' = [typeOf EXCEPT ![c] = name]
    /\ regRes' = Registration("resource_type", name, c, "returned")

\* resources.py: @resource_type(name) applied to class c
resource_type(name, c) ==
    IF resource_types[name] # None
    THEN /\ regRes' = Registration("resource_type", name, c, "AssertionError")
         /\ UNCHANGED <<resource_types, typeOf>>
    ELSE /\ resource_types' = [resource_types EXCEPT ![name] = c]
         /\ typeOf' = [typeOf EXCEPT ![c] = name]
         /\ regRes' = Registration("resource_type", name, c, "returned")

\* test.py: @objectclass(type) applied to class obj
objectclass(type, obj) ==
    /\ typeOf' = [typeOf EXCEPT ![obj] = type]
    /\ types' = [types EXCEPT ![type] = obj]
    /\ regRes' = Registration("objectclass", type, obj, "returned")

RegisterResource ==
    /\ \E name \in TypeNames, c \in Classes : resource_type(name, c)
    /\ UNCHANGED types
    /\ UNCHANGED <<thrVars, bindVars>>
    /\ UNCHANGED <<readAt, resVars>>
    /\ UNCHANGED <<tokenVars, reqVars, foldVars, iterVars>>

RegisterObject ==
    /\ \E type \in TypeNames, obj \in Classes : objectclass(type, obj)
    /\ UNCHANGED resource_types
    /\ UNCHANGED <<thrVars, bindVars>>
    /\ UNCHANGED <<readAt, resVars>>
    /\ UNCHANGED <<tokenVars, reqVars, foldVars, iterVars>>

InitReg ==
    /\ resource_types = [n \in TypeNames |-> None]
    /\ types = [n \in TypeNames |-> None]
    /\ typeOf = [c \in Classes |-> None]
    /\ regRes = None

\* the registry after test.py has been imported
ModuleTypes == [n \in TypeNames |-> IF n = "devices" THEN Class("Device") ELSE Class("Profile")]

----------------------------------------------------------------------------
(* Object.load, Object.create, Object.update                               *)

Str(x) == [kind |-> "str", s |-> x]
Enum(n) == [kind |-> "enum", name |-> n]

\* str(value): an enum member gives its name
str(v) == IF v.kind = "enum" THEN Str(v.name) ELSE v

\* a string's truth value
truthy_str(v) == v # None /\ v.s # ""

\* the value a parameter takes: the argument, or the default None
arg(a) == IF a.given THEN a.val ELSE None

\* Object.load; the registered class has no parse attribute in this source,
\* so the call through it either raises AttributeError or, where the
\* installed dataclass support provides one, returns an instance
load(data, parses) ==
    IF "links" \in DOMAIN data /\ "attributes" \in DOMAIN data
    THEN IF data.type \notin TypeNames \/ types[data.type] = None
         THEN [raised |-> TRUE, exc |-> "KeyError"]
         ELSE IF parses
              THEN [raised |-> FALSE,
                    value |-> [kind |-> "parsed", cls |-> types[data.type], data |-> data]]
              ELSE [raised |-> TRUE, exc |-> "AttributeError"]
    ELSE [raised |-> FALSE, value |-> data]

\* Device.Meta.create
Device_Meta_create(name, platform, udid) ==
    [attributes |-> [name |-> name, platform |-> str(platform), udid |-> udid]]

\* Device.Meta.update sending null for what was left out
Device_Meta_update_sends_null(name, status) ==
    [attributes |-> [name |-> name,
                     status |-> IF status # None THEN str(status) ELSE None]]

\* Device.Meta.update
Device_Meta_update(name, status) ==
    LET keys == {k \in {"name", "status"} :
                   \/ k = "name" /\ name # None
                   \/ k = "status" /\ status # None}
    IN [attributes |-> [k \in keys |-> IF k = "name" THEN name ELSE str(status)]]

data_relation(type, id) == [data |-> [id |-> id, type |-> type]]
data_relation_list(type, id_list) ==
    [data |-> [i \in DOMAIN id_list |-> [id |-> id_list[i], type |-> type]]]

\* Profile.Meta.create
Profile_Meta_create(name, profileType, bundleId, certificate_ids, device_ids, templateName) ==
    LET ids == IF device_ids = None \/ Len(device_ids.items) = 0
               THEN <<>> ELSE device_ids.items
        attributes == IF truthy_str(templateName)
                      THEN [name |-> name, profileType |-> str(profileType),
                            templateName |-> templateName]
                      ELSE [name |-> name, profileType |-> str(profileType)]
    IN [attributes |-> attributes,
        relationships |-> [bundleId |-> data_relation("bundleIds", bundleId),
                           certificates |-> data_relation_list("certificates",
                                                               certificate_ids.items),
                           devices |-> data_relation_list("devices", ids)]]

\* the calls of create and update callers make
DeviceCreates ==
    {[kind |-> "create", cls |-> "devices", path |-> "v1/devices",
      data |-> Device_Meta_create(Str("iPhone"), platform, Str("U1"))] :
        platform \in {Enum("IOS"), Str("MAC_OS")}}
ProfileCreates ==
    {[kind |-> "create", cls |-> "profiles", path |-> "v1/profiles",
      data |-> Profile_Meta_create(Str("dev"), Enum("IOS_APP_DEVELOPMENT"), Str("B1"),
                                   JList(<<Str("C1")>>), arg(device_ids), arg(templateName))] :
        device_ids \in {NotGiven, Given(JList(<<>>)), Given(JList(<<Str("D1"), Str("D2")>>))},
        templateName \in {NotGiven, Given(Str("")), Given(Str("tmpl"))}}
CreateCalls == DeviceCreates \cup ProfileCreates

NameArgs == {NotGiven, Given(None), Given(Str("iPhone"))}
StatusArgs == {NotGiven, Given(None), Given(Enum("DISABLED")), Given(Str("ENABLED"))}
Ids == {"D1"}

\* resp.json() of a create or update the server accepted
CrudBody(o) ==
    [data |-> [type |-> o.cls, id |-> "D1",
               attributes |-> [name |-> Str("iPhone")],
               links |-> [self |-> <<"https://", Host, "/", o.path, "/", "D1">>]]]

\* Object.create up to its first attempt
Create ==
    /\ reqState # "running"
    /\ \E c \in CreateCalls :
          /\ json' = [data |-> c.data, type |-> c.cls]
          /\ op' = [kind |-> "create", cls |-> c.cls, path |-> c.path]
          /\ StartRequest("POST", <<c.path>>, None, DefaultRetry)
    /\ ret' = None
    /\ UNCHANGED <<tokenVars, foldVars, iterVars, objVars>>

\* Object.update up to its first attempt; Profile.Meta has no update
Update ==
    /\ reqState # "running"
    /\ \E id \in Ids :
          \/ \E name \in NameArgs, status \in StatusArgs :
                /\ json' = [data |-> Device_Meta_update(arg(name), arg(status)),
                            id |-> id, type |-> "devices"]
                /\ op' = [kind |-> "update", cls |-> "devices", path |-> "v1/devices",
                          id |-> id, name |-> name, status |-> status]
                /\ StartRequest("PATCH", <<"v1/devices", "/", id>>, None, DefaultRetry)
                /\ ret' = None
          \/ /\ op' = [kind |-> "update", cls |-> "profiles", path |-> "v1/profiles",
                        id |-> id, name |-> NotGiven, status |-> NotGiven]
             /\ ret' = [raised |-> TRUE, exc |-> "AttributeError"]
             /\ reqState' = "idle"
             /\ UNCHANGED <<method, url, params, retry, attempt, sent, resp, err, auth, json>>
    /\ UNCHANGED <<tokenVars, foldVars, iterVars, objVars>>

\* one attempt of the post or patch; when the call returns, the response's
\* data member is loaded
CrudAttempt ==
    /\ op # None
    /\ AttemptStep(CrudBody(op))
    /\ IF reqState' = "returned"
       THEN \E parses \in BOOLEAN : ret' = load(resp'.body.data, parses)
       ELSE IF reqState' = "raised"
            THEN ret' = [raised |-> TRUE, exc |-> err'.kind]
            ELSE UNCHANGED ret
    /\ UNCHANGED <<json, op>>
    /\ UNCHANGED <<foldVars, iterVars, objVars>>

\* the registries once the modules have been imported
InitRegistered ==
    /\ resource_types = [n \in TypeNames |-> None]
    /\ types = ModuleTypes
    /\ typeOf = [c \in Classes |-> IF c = Class("Device") THEN "devices" ELSE "profiles"]
    /\ regRes = None

----------------------------------------------------------------------------
(* Object.__init__                                                         *)

\* a dict literal: the members given as Absent are left out
Absent == [kind |-> "absent"]
dict(members) == [k \in {x \in DOMAIN members : members[x] # Absent} |-> members[k]]

\* d.get(k)
get(d, k) == IF k \in DOMAIN d THEN d[k] ELSE None

PyList(items) == [kind |-> "list", items |-> items]
Num(n) == [kind |-> "num", n |-> n]
isinstance_list(v) == "kind" \in DOMAIN v /\ v.kind = "list"
isinstance_dict(v) == "kind" \notin DOMAIN v

\* the truth value of None, a dict, a list
truthy(v) ==
    IF v = None THEN FALSE
    ELSE IF isinstance_list(v) THEN Len(v.items) > 0
    ELSE DOMAIN v # {}

\* the declared fields, in declaration order, with their annotations
\* (Device: two of its attributes; Profile: an attribute and the to-one and
\* a to-many relationship)
dataclass_fields(c) ==
    IF c = Class("Device")
    THEN <<[name |-> "name", type |-> "str"],
           [name |-> "status", type |-> "DeviceStatus"]>>
    ELSE <<[name |-> "name", type |-> "str"],
           [name |-> "bundleId", type |-> "BundleId"],
           [name |-> "devices", type |-> "list[Device]"]>>
field_names(c) == {dataclass_fields(c)[i].name : i \in DOMAIN dataclass_fields(c)}

DeviceStatus == {"ENABLED", "DISABLED"}

\* field.type(value) for the attribute annotations: str() of a value, and
\* the enum member with that value or ValueError
coerce(type, value) ==
    IF type = "str"
    THEN [raised |-> FALSE,
          value |-> IF value.kind = "num" THEN Str(ToString(value.n)) ELSE value]
    ELSE IF value.kind = "str" /\ value.s \in DeviceStatus
         THEN [raised |-> FALSE, value |-> Enum(value.s)]
         ELSE [raised |-> TRUE, exc |-> "ValueError"]

\* the attribute branch without the call of field.type
bind_attribute_uncoerced(type, value) ==
    [raised |-> FALSE, value |-> value]

\* value = attributes[name]; value = field.type(value) if value is not None
bind_attribute(type, value) ==
    IF value # None THEN coerce(type, value) ELSE [raised |-> FALSE, value |-> None]

\* {}
empty_dict == [k \in {} |-> None]

\* [self.load(obj) for obj in data]
load_list(items, parses) ==
    LET rs == [i \in DOMAIN items |-> load(items[i], parses)]
        bad == {i \in DOMAIN items : rs[i].raised}
    IN IF bad # {}
       THEN [raised |-> TRUE, exc |-> rs[CHOOSE i \in bad : \A j \in bad : i <= j].exc]
       ELSE [raised |-> FALSE, value |-> PyList([i \in DOMAIN items |-> rs[i].value])]

\* the relationship branch without the paging test
bind_relationship_no_paging(entry, parses) ==
    LET data == get(entry, "data") IN
    IF isinstance_dict(data) THEN load(data, parses)
    ELSE IF isinstance_list(data) THEN load_list(data.items, parses)
    ELSE [raised |-> FALSE, value |-> None]

\* the relationship branch: data = relationships[name].get("data") ...
bind_relationship(entry, parses) ==
    LET data == get(entry, "data")
        meta == IF "meta" \in DOMAIN entry THEN entry.meta ELSE empty_dict
    IN IF isinstance_dict(data) THEN load(data, parses)
       ELSE IF isinstance_list(data) THEN load_list(data.items, parses)
       ELSE IF truthy(get(meta, "paging")) THEN [raised |-> FALSE, value |-> PyList(<<>>)]
       ELSE [raised |-> FALSE, value |-> None]

\* Object.__init__(self, obj) for an instance of class c
Object_init(obj, c, parses) ==
    IF typeOf[c] # obj.type THEN [raised |-> TRUE, exc |-> "AssertionError"]
    ELSE IF {"id", "links", "attributes"} \ DOMAIN obj # {}
    THEN [raised |-> TRUE, exc |-> "KeyError"]
    ELSE
      LET attributes == obj.attributes
          relationships == IF "relationships" \in DOMAIN obj
                           THEN obj.relationships ELSE empty_dict
          fs == dataclass_fields(c)
          rs == [i \in DOMAIN fs |->
                   IF fs[i].name \in DOMAIN attributes
                   THEN bind_attribute(fs[i].type, attributes[fs[i].name])
                   ELSE IF fs[i].name \in DOMAIN relationships
                        THEN bind_relationship(relationships[fs[i].name], parses)
                        ELSE [raised |-> FALSE, value |-> None]]
          bad == {i \in DOMAIN fs : rs[i].raised}
      IN IF bad # {}
         THEN [raised |-> TRUE, exc |-> rs[CHOOSE i \in bad : \A j \in bad : i <= j].exc]
         ELSE [raised |-> FALSE,
               value |-> [id |-> obj.id, url |-> obj.links.self,
                          fields |-> [n \in field_names(c) |->
                                        rs[CHOOSE i \in DOMAIN fs : fs[i].name = n].value]]]

\* a class is instantiated with a raw record
Bind ==
    /\ bound = None /\ bindErr = None
    /\ \E parses \in BOOLEAN :
          LET r == Object_init(record, cls, parses) IN
          IF r.raised
          THEN bindErr' = [kind |-> r.exc] /\ UNCHANGED bound
          ELSE bound' = r.value /\ UNCHANGED bindErr
    /\ UNCHANGED <<record, cls>>
    /\ UNCHANGED <<tokenVars, reqVars, foldVars, iterVars, thrVars, regVars>>
    /\ UNCHANGED <<readAt, resVars>>

\* raw records as the server sends them: a bare reference, and a record
\* with attributes and links
Ref(type, id) == [id |-> id, type |-> type]
SelfLinks(path, id) == [self |-> <<"https://", Host, "/", path, "/", id>>]
FullDevice(id) ==
    [type |-> "devices", id |-> id, links |-> SelfLinks("v1/devices", id),
     attributes |-> [name |-> Str("iPhone")]]
FullBundleId(id) ==
    [type |-> "bundleIds", id |-> id, links |-> SelfLinks("v1/bundleIds", id),
     attributes |-> [name |-> Str("app")]]

Paging == [paging |-> [total |-> Num(3), limit |-> Num(10)]]
Metas == {Absent, Paging, [other |-> Num(1)]}
ToOneDatas == {Absent, None, Ref("bundleIds", "B1"), FullDevice("D9")}
ToManyDatas == {Absent, None, PyList(<<>>),
                PyList(<<Ref("devices", "D2"), FullDevice("D1"), Ref("devices", "D3")>>)}
ToOneEntries == {dict([data |-> d, meta |-> m]) : d \in ToOneDatas, m \in Metas}
ToManyEntries == {dict([data |-> d, meta |-> m]) : d \in ToManyDatas, m \in Metas}

DeviceRecords ==
    {[type |-> t, id |-> "D1", links |-> SelfLinks("v1/devices", "D1"),
      attributes |-> dict([name |-> n, status |-> st, futureAttr |-> x])] :
        t \in {"devices", "profiles"},
        n \in {Absent, None, Str("iPhone"), Num(5)},
        st \in {Absent, None, Str("ENABLED"), Str("BOGUS")},
        x \in {Absent, Str("new")}}
ProfileRecords ==
    {[type |-> "profiles", id |-> "P1", links |-> SelfLinks("v1/profiles", "P1"),
      attributes |-> [name |-> Str("dev")],
      relationships |-> dict([bundleId |-> one, devices |-> many, futureRel |-> x])] :
        one \in ToOneEntries \cup {Absent},
        many \in ToManyEntries \cup {Absent},
        x \in {Absent, dict([data |-> Ref("apps", "A1"), meta |-> Paging])}}
BindRecords == DeviceRecords \cup ProfileRecords \cup {Ref("devices", "D1")}

InitBindIdle ==
    /\ record = None
    /\ cls = None
    /\ bound = None
    /\ bindErr = None

----------------------------------------------------------------------------
(* resources.py: Resource.__getattr__                                      *)

MaxCalls == 3

\* BetaGroup.relationships, without builds
resource_relationships ==
    [app |-> [multiple |-> FALSE], betaTesters |-> [multiple |-> TRUE]]

\* the names a caller reads: id, an attribute of the record, the declared
\* relationships, data, and a declared attribute the record lacks
Items == {"id", "name", "app", "betaTesters", "data", "publicLink"}

Related(name) == [related |-> <<"https://", Host, "/", "v1/betaGroups/G1/", name>>]
RelationshipEntries(name, d) ==
    {Absent, dict([data |-> d, links |-> Absent]), dict([data |-> d, links |-> Related(name)])}

\* the records a BetaGroup is built from
ResourceDatas ==
    {[id |-> Str("G1"), type |-> "betaGroups",
      attributes |-> dict([name |-> Str("testers"), data |-> x]),
      relationships |-> dict([app |-> one, betaTesters |-> many])] :
        x \in {Absent, Str("blob")},
        one \in RelationshipEntries("app", Ref("apps", "A1")),
        many \in RelationshipEntries("betaTesters", None)}

Raise(item, exc) == [kind |-> "raise", item |-> item, exc |-> exc]

\* Resource.__getattr__(self, item)
Resource_getattr(item) ==
    IF item = "id" THEN [kind |-> "value", item |-> item, value |-> get(rdata, "id")]
    ELSE IF item \in DOMAIN rdata.attributes
    THEN [kind |-> "value", item |-> item, value |-> rdata.attributes[item]]
    ELSE IF item \in DOMAIN resource_relationships
    THEN IF item \notin DOMAIN rdata.relationships
         THEN Raise(item, "KeyError")
         ELSE [kind |-> "getter", item |-> item,
               data |-> get(rdata.relationships[item], "data")]
    ELSE Raise(item, "AttributeError")

\* Api.get_related_resource(s)(url, ...): one GET of the related link
get_related_resource(related, multiple, data) ==
    [fetched |-> TRUE, url |-> related, multiple |-> multiple]

\* the closure getter() that __getattr__ returned for g.item: print,
\* pprint(self.data), the related link, the call of the client
getter_call(g) ==
    LET d == Resource_getattr("data") IN
    IF d.kind = "raise" THEN [fetched |-> FALSE, res |-> Raise(g.item, d.exc)]
    ELSE IF "links" \notin DOMAIN rdata.relationships[g.item]
    THEN [fetched |-> FALSE, res |-> Raise(g.item, "KeyError")]
    ELSE LET r == get_related_resource(rdata.relationships[g.item].links.related,
                                       resource_relationships[g.item].multiple, g.data)
         IN [fetched |-> r.fetched,
             res |-> [kind |-> "resources", item |-> g.item, url |-> r.url]]

ResFrame ==
    /\ UNCHANGED <<tokenVars, reqVars, foldVars, iterVars>>
    /\ UNCHANGED <<thrVars, regVars, bindVars, readAt>>

\* a caller reads resource.<item>
GetAttr ==
    /\ \E item \in Items :
          LET r == Resource_getattr(item) IN
          /\ accRes' = r
          /\ getter' = IF r.kind = "getter" THEN r ELSE getter
    /\ UNCHANGED <<rdata, calls, relFetches>>
    /\ ResFrame

\* a caller calls the accessor it holds
CallGetter ==
    /\ getter # None
    /\ calls < MaxCalls
    /\ LET r == getter_call(getter) IN
          /\ accRes' = r.res
          /\ relFetches' = IF r.fetched THEN relFetches + 1 ELSE relFetches
    /\ calls' = calls + 1
    /\ UNCHANGED <<rdata, getter>>
    /\ ResFrame

----------------------------------------------------------------------------
(* Specifications                                                          *)

InitResIdle ==
    /\ rdata = None
    /\ getter = None
    /\ calls = 0
    /\ relFetches = 0
    /\ accRes = None

InitObj == InitThr /\ InitReg /\ InitBindIdle /\ InitResIdle
Init == InitToken /\ InitReq /\ InitFoldIdle /\ InitIter /\ InitObj

\* calls of request while time passes
Next == Call \/ Attempt \/ Tick
Spec == Init /\ [][Next]_vars

\* reads of the token while time passes
NextToken == ReadToken \/ Tick
SpecToken == Init /\ [][NextToken]_vars

\* timed reads of the token while time passes
NextRead == TimedRead \/ Tick
SpecRead == Init /\ [][NextRead]_vars

\* a decoded document is folded, and folded again
InitFold ==
    /\ InitToken
    /\ InitReq
    /\ InitIter
    /\ InitObj
    /\ page \in FoldDocs
    /\ orig = page
    /\ folds = 0
    /\ foldErr = FALSE
NextFold == Fold
SpecFold == InitFold /\ [][NextFold]_vars

\* resources are created and updated
InitCrud ==
    /\ InitToken /\ InitReq /\ InitFoldIdle /\ InitIter
    /\ InitThr /\ InitRegistered /\ InitBindIdle /\ InitResIdle
NextCrud == Create \/ Update \/ CrudAttempt
SpecCrud == InitCrud /\ [][NextCrud]_vars

\* two threads read the token while time passes
NextThreads == ThreadStep \/ Tick
SpecThreads == Init /\ [][NextThreads]_vars

\* a raw record is bound by Object.__init__
InitBind ==
    /\ InitToken /\ InitReq /\ InitFoldIdle /\ InitIter
    /\ InitThr /\ InitRegistered /\ InitResIdle
    /\ record \in BindRecords
    /\ cls \in Classes
    /\ bound = None
    /\ bindErr = None
NextBind == Bind
SpecBind == InitBind /\ [][NextBind]_vars

\* attributes and relationships of a Resource are read
InitResource ==
    /\ InitToken /\ InitReq /\ InitFoldIdle /\ InitIter
    /\ InitThr /\ InitReg /\ InitBindIdle
    /\ rdata \in ResourceDatas
    /\ getter = None
    /\ calls = 0
    /\ relFetches = 0
    /\ accRes = None
NextResource == GetAttr \/ CallGetter
SpecResource == InitResource /\ [][NextResource]_vars

\* classes are registered with the two decorators
NextReg == RegisterResource \/ RegisterObject
SpecReg == Init /\ [][NextReg]_vars

\* pages are fetched through get_data_iter
NextIter == IterStart \/ IterNext \/ IterAttempt
SpecIter == Init /\ [][NextIter]_vars

----------------------------------------------------------------------------
(* Claims                                                                  *)

\* C1: with well-formed key material, a read of BearerToken.token at a time
\* now <= expires returns the cached token and changes nothing; a read at
\* now > expires mints exactly one token, different from the previous one,
\* sets expires to now + 1200 and returns the new token.
C1_TokenReuse ==
    [][(clock' = clock /\ keyOk) =>
         IF clock <= expires
         THEN /\ token' = token /\ minted' = minted /\ expires' = expires
              /\ tokRes' = [kind |-> "value", value |-> token]
         ELSE /\ minted' = minted + 1
              /\ token' # token
              /\ expires' = clock + 1200
              /\ tokRes' = [kind |-> "value", value |-> token']]_vars

\* a second token has been minted and a read inside its window returned it
C1_Witness ==
    /\ keyOk /\ minted = 2 /\ clock <= expires
    /\ tokRes = [kind |-> "value", value |-> token]

\* a request was handed to the transport in this step
Sends == sent' = sent + 1

Is429(r) == r.kind = "response" /\ r.status = 429 /\ r.header.present

\* C2: an attempt answered 429 with user-hour-rem:0 ends the call with the
\* HTTP error of that response and nothing more is sent by the call; an
\* attempt answered 429 with user-hour-rem:N, N > 0, leaves the call running
\* when budget remains, and a success right after it returns having sent
\* one request more (two, when the 429 answered the first request).
C2_RateLimit ==
    [][/\ (Sends /\ Is429(resp') /\ search_rem(resp'.header.entries).found
              /\ search_rem(resp'.header.entries).rem = 0)
          => (reqState' = "raised" /\ err' = [kind |-> "HTTPError"])
       /\ (Sends /\ Is429(resp') /\ search_rem(resp'.header.entries).found
              /\ search_rem(resp'.header.entries).rem > 0 /\ attempt + 1 < retry)
          => (reqState' = "running" /\ attempt' = attempt + 1 /\ attempt' < retry')
       /\ (reqState = "running" /\ Is429(resp) /\ reqState' = "returned")
          => (sent' = sent + 1 /\ (attempt = 1 => sent' = 2))
       /\ (reqState # "running") => ~Sends]_vars

\* the first request was answered 429 with quota left and the call goes on
C2_Witness ==
    /\ reqState = "running" /\ Is429(resp) /\ sent = 1
    /\ search_rem(resp.header.entries).found
    /\ search_rem(resp.header.entries).rem > 0

\* C3: an attempt answered 401 or 500 while attempt budget remains is
\* followed by another attempt.
C3_RetryOn401And500 ==
    [][(Sends /\ resp'.kind = "response" /\ resp'.status \in {401, 500}
          /\ attempt + 1 < retry)
       => reqState' = "running"]_vars

\* C4: an attempt answered with an error status other than 401, 429 and 500
\* ends the call with the HTTP error, and the call sends nothing more.
C4_OtherStatusRaisesHttpError ==
    [][/\ (Sends /\ resp'.kind = "response" /\ resp'.status >= 400
              /\ resp'.status \notin {401, 429, 500})
          => (reqState' = "raised" /\ err' = [kind |-> "HTTPError"])
       /\ (reqState = "raised") => ~Sends]_vars

\* the failures the retry policy names as retryable
RetryableFailure(r) ==
    \/ r.kind = "timeout"
    \/ /\ r.kind = "response"
       /\ \/ r.status \in {401, 500}
          \/ /\ r.status = 429
             /\ ~(r.header.present /\ search_rem(r.header.entries).found
                    /\ search_rem(r.header.entries).rem = 0)

\* C5: a call with budget n sends at most n requests, an attempt that ends in
\* a retryable failure either leaves the call running or, as the n-th, ends
\* it with the retry-exhausted error after exactly n requests, and every
\* attempt uses up budget, so that the call terminates.
C5_Budget ==
    [][/\ sent' <= retry'
       /\ (Sends /\ RetryableFailure(resp'))
          => /\ attempt' = attempt + 1
             /\ IF attempt' < retry'
                THEN reqState' = "running"
                ELSE reqState' = "raised" /\ err' = [kind |-> "RetryError"] /\ sent' = retry'
       /\ (reqState' = "running") => attempt' < retry']_vars

\* the references of a relationship, as decoded
RefsOf(rel) ==
    IF ~rel.hasData \/ rel.data.kind = "null" THEN <<>>
    ELSE IF rel.data.kind = "dict" THEN <<rel.data.obj>>
    ELSE rel.data.items

SameKey(a, b) == a.type = b.type /\ a.id = b.id
Included(p, o) == \E k \in DOMAIN p.included : SameKey(p.included[k], o)
IsIncludedRecord(p, o) == \E k \in DOMAIN p.included : p.included[k] = o

Foldable(p) == p.hasIncluded /\ p.data.kind = "list"

\* C6: after a fold of a page with a data list, every relationship whose
\* references all match included records holds those records in place of the
\* references: a single record for a single reference, a list in the same
\* order for a list.
C6_FoldReplacesMatches ==
    (folds >= 1 /\ Foldable(orig)) =>
        \A i \in DOMAIN orig.data.items :
            \A j \in DOMAIN orig.data.items[i].relationships :
                LET before == orig.data.items[i].relationships[j]
                    after == page.data.items[i].relationships[j]
                IN (RefsOf(before) # <<>> /\ \A k \in DOMAIN RefsOf(before) : Included(orig, RefsOf(before)[k]))
                   => /\ after.data.kind = before.data.kind
                      /\ Len(RefsOf(after)) = Len(RefsOf(before))
                      /\ \A k \in DOMAIN RefsOf(before) :
                            /\ SameKey(RefsOf(after)[k], RefsOf(before)[k])
                            /\ IsIncludedRecord(orig, RefsOf(after)[k])

\* C7: a fold of a page that has an included list completes normally, and a
\* relationship reference with no match in the included list stays the bare
\* reference.
C7_FoldKeepsUnmatched ==
    (folds >= 1 /\ Foldable(orig)) =>
        /\ ~foldErr
        /\ \A i \in DOMAIN orig.data.items :
              \A j \in DOMAIN orig.data.items[i].relationships :
                 LET before == orig.data.items[i].relationships[j]
                     after == page.data.items[i].relationships[j]
                 IN \A k \in DOMAIN RefsOf(before) :
                       ~Included(orig, RefsOf(before)[k])
                       => (Len(RefsOf(after)) = Len(RefsOf(before))
                           /\ RefsOf(after)[k] = RefsOf(before)[k])

\* C8: folding a page on which folding succeeded changes nothing and
\* succeeds again.
C8_FoldIdempotent ==
    [][(folds >= 1 /\ ~foldErr /\ folds' = folds + 1)
       => (page' = page /\ ~foldErr')]_vars

\* a page whose fold replaced a list of two references was folded twice
C8_Witness ==
    /\ folds = 2 /\ ~foldErr /\ page # orig
    /\ \E i \in DOMAIN orig.data.items :
          \E j \in DOMAIN orig.data.items[i].relationships :
             Len(RefsOf(orig.data.items[i].relationships[j])) = 2

RecKey(r) == <<r.type, r.id>>
Keys(rs) == [k \in DOMAIN rs |-> RecKey(rs[k])]

RECURSIVE ChainRecords(_, _)
ChainRecords(c, k) ==
    IF k > Len(c) THEN <<>> ELSE c[k].data.items \o ChainRecords(c, k + 1)

\* C9: get_all_data on a chain of n pages whose fetches all return ends
\* normally after exactly n page fetches with the concatenation of the
\* pages' records in server order, and never fetches more than n pages.
C9_AllPages ==
    /\ fetches <= Len(chain)
    /\ (itView = "all" /\ itState \in {"exhausted", "raised"} /\ reqState = "returned")
       => /\ itState = "exhausted"
          /\ fetches = Len(chain)
          /\ Keys(out) = Keys(ChainRecords(chain, 1))

\* C10: the requests for the first page carry the query parameters built
\* from fields, include and limit; every request for a later page goes to
\* the next link of the page before it, as received, and carries no query
\* parameters.
C10_ParamsFirstPageOnly ==
    [][Sends =>
         /\ (fetches' = 1) => (params' = itKw'.params /\ params'.kind = "dict"
                               /\ url' = make_url(ListPath))
         /\ (fetches' > 1) => (params' = None
                               /\ url' = chain'[fetches' - 1].links.next.url)]_vars

\* a second page was fetched after a first request that carried limit
C10_Witness ==
    /\ fetches = 2 /\ reqState = "returned" /\ sent >= 1
    /\ itKw.params.limit.given /\ params = None

\* the pages the consumer has requested: its next() calls, without the one
\* that found no next link and ended the sequence
PagesRequested == IF itState = "exhausted" THEN asked - 1 ELSE asked

\* C11: get_data_iter fetches lazily and in cursor order: a page fetch is
\* issued only in answer to the consumer's request, the fetch for page k+1
\* goes to the next link of the response for page k, the fetches issued
\* always equal the pages requested, and get_data issues one fetch only.
C11_LazyInOrder ==
    [][/\ fetches' = PagesRequested'
       /\ (fetches' # fetches /\ itState # "none")
          => /\ itState = "suspended"
             /\ asked' = asked + 1
             /\ fetches' = fetches + 1
             /\ url' = PageUrl(fetches')
             /\ fetches >= 1 => url' = resp.body.links.next.url
       /\ itView' = "first" => fetches' <= 1]_vars

\* get_data returned a first page that has a next link
C11_Witness ==
    /\ itView = "first" /\ itState = "finished" /\ fetches = 1
    /\ next_link(page) # None

\* C12: a resource_type registration under a name that is already registered
\* fails and changes nothing, and a name once registered keeps its class.
C12_ResourceTypeKeepsFirst ==
    [][/\ \A n \in TypeNames :
             resource_types[n] # None => resource_types'[n] = resource_types[n]
       /\ (regRes'.by = "resource_type" /\ resource_types[regRes'.name] # None)
          => (regRes'.kind = "AssertionError" /\ resource_types' = resource_types)]_vars

\* a second class was registered under a taken name and refused
C12_Witness ==
    /\ regRes.kind = "AssertionError" /\ regRes.by = "resource_type"
    /\ resource_types[regRes.name] \in Classes \ {regRes.cls}

\* C13: an objectclass registration under a name already in Object.types
\* fails, and Object.types keeps the class registered first.
C13_ObjectTypesKeepsFirst ==
    [][/\ \A n \in TypeNames : types[n] # None => types'[n] = types[n]
       /\ (regRes'.by = "objectclass" /\ types[regRes'.name] # None)
          => regRes'.kind # "returned"]_vars

\* C16: with malformed key material no read of BearerToken.token returns a
\* value: every read raises the signing error.
C16_MalformedKeyAlwaysFails ==
    ~keyOk => tokRes.kind \in {"None", "raise"}

Supplied(a) == a.given /\ a.val # None

\* C14: the attributes of the PATCH Device.update sends have a key for name
\* and for status exactly when the caller supplied it, with the supplied
\* value; nothing else is sent, and no key holds null.
C14_UpdateSendsSupplied ==
    (op # None /\ op.kind = "update" /\ op.cls = "devices")
    => /\ method = "PATCH"
       /\ DOMAIN json.data.attributes = {k \in {"name", "status"} : Supplied(op[k])}
       /\ \A k \in DOMAIN json.data.attributes :
             /\ json.data.attributes[k] # None
             /\ json.data.attributes[k] = str(op[k].val)

\* an update that supplied status only was sent
C14_Witness ==
    /\ op # None /\ op.kind = "update" /\ op.cls = "devices" /\ sent >= 1
    /\ Supplied(op.status) /\ ~op.name.given
    /\ DOMAIN json.data.attributes = {"status"}

\* C18: the document create and update send carries the resource object in
\* its data member: type, and for update id, are members of data, next to
\* attributes, and not members of the document beside data.
C18_ResourceObjectInData ==
    (op # None /\ sent >= 1)
    => /\ DOMAIN json = {"data"}
       /\ "type" \in DOMAIN json.data /\ json.data.type = op.cls
       /\ op.kind = "update" => ("id" \in DOMAIN json.data /\ json.data.id = op.id)

\* thread t's read has returned v
Returned(t, v) == tpc[t] = "done" /\ tret[t] = [kind |-> "value", value |-> v]

\* C15: with well-formed key material and two threads reading, every read
\* returns a token that is set and not expired at the time of the read, and
\* a token is minted only when the one in place is unset or expired: one
\* token per validity window.
C15_RefreshSerialized ==
    [][keyOk =>
         /\ \A t \in Threads :
               (tpc'[t] = "done" /\ tpc[t] = "return")
               => (token # None /\ token.exp >= tnow[t])
         /\ \A t \in Threads :
               (tpc[t] = "encode" /\ tpc'[t] = "return")
               => (token = None \/ token.exp < tnow[t])]_vars

\* the record load returns for d when it returns
Loaded(d) == load(d, TRUE).value

\* C19: a declared relationship read from the record's relationships is
\* bound, when its data is absent or null, to an empty list if the entry
\* carries meta.paging and to null otherwise; when data is a record, to the
\* loaded record; when data is a list, to the list of loaded records in the
\* same order.
C19_RelationshipBinding ==
    bound # None
    => \A i \in DOMAIN dataclass_fields(cls) :
          LET f == dataclass_fields(cls)[i].name IN
          (/\ f \notin DOMAIN record.attributes
           /\ "relationships" \in DOMAIN record
           /\ f \in DOMAIN record.relationships)
          => LET e == record.relationships[f]
                 d == get(e, "data")
                 v == bound.fields[f]
             IN /\ d = None
                   => v = IF "meta" \in DOMAIN e /\ "paging" \in DOMAIN e.meta
                          THEN PyList(<<>>) ELSE None
                /\ isinstance_dict(d) => v = Loaded(d)
                /\ isinstance_list(d)
                   => v = PyList([k \in DOMAIN d.items |-> Loaded(d.items[k])])

\* a profile was bound whose devices entry has paging and no data, and
\* whose bundleId entry holds a record
C19_Witness ==
    /\ bound # None /\ cls = Class("Profile")
    /\ "relationships" \in DOMAIN record
    /\ "devices" \in DOMAIN record.relationships
    /\ "data" \notin DOMAIN record.relationships.devices
    /\ "meta" \in DOMAIN record.relationships.devices
    /\ bound.fields["devices"] = PyList(<<>>)
    /\ "bundleId" \in DOMAIN record.relationships
    /\ bound.fields["bundleId"] = Ref("bundleIds", "B1")

\* the record without the names the class does not declare
Strip(obj, c) ==
    IF "attributes" \notin DOMAIN obj THEN obj
    ELSE LET keep(d) == [k \in DOMAIN d \cap field_names(c) |-> d[k]] IN
         IF "relationships" \in DOMAIN obj
         THEN [obj EXCEPT !.attributes = keep(@), !.relationships = keep(@)]
         ELSE [obj EXCEPT !.attributes = keep(@)]

\* C20: the bound fields are exactly the declared fields; a declared
\* attribute present and non-null is bound to its coerced value, one that is
\* null, or absent from the record, to null; names the class does not
\* declare change neither the bound fields nor the error, if any.
C20_DeclaredFieldsOnly ==
    /\ bound # None
       => /\ DOMAIN bound.fields = field_names(cls)
          /\ \A i \in DOMAIN dataclass_fields(cls) :
                LET f == dataclass_fields(cls)[i].name
                    ty == dataclass_fields(cls)[i].type
                    attrs == record.attributes
                IN /\ (f \in DOMAIN attrs /\ attrs[f] # None)
                      => bound.fields[f] = coerce(ty, attrs[f]).value
                   /\ (f \in DOMAIN attrs /\ attrs[f] = None)
                      => bound.fields[f] = None
                   /\ (f \notin DOMAIN attrs
                       /\ ("relationships" \in DOMAIN record
                           => f \notin DOMAIN record.relationships))
                      => bound.fields[f] = None
          /\ bound.fields = Object_init(Strip(record, cls), cls, TRUE).value.fields
    /\ bindErr # None
       => \E parses \in BOOLEAN :
             LET r == Object_init(Strip(record, cls), cls, parses) IN
             r.raised /\ r.exc = bindErr.kind

\* a device was bound from a record with an undeclared attribute, a name
\* that is a number, and a status
C20_Witness ==
    /\ bound # None /\ cls = Class("Device")
    /\ "futureAttr" \in DOMAIN record.attributes
    /\ "name" \in DOMAIN record.attributes /\ record.attributes.name = Num(5)
    /\ bound.fields["name"] = Str("5")
    /\ bound.fields["status"] = Enum("ENABLED")

\* C23: a read of BearerToken.token at time now that returns a token returns
\* one whose expiry e satisfies now <= e <= now + 1200.
C23_ExpiryBounds ==
    (tokRes.kind = "value" /\ tokRes.value # None)
    => /\ readAt <= tokRes.value.exp
       /\ tokRes.value.exp <= readAt + Window

\* a read in the last second of a window returned the cached token
C23_Witness ==
    /\ tokRes.kind = "value" /\ tokRes.value # None
    /\ readAt = tokRes.value.exp /\ minted = 1

\* C24: folding a document that has no included member, or whose data is a
\* single object, leaves the document as it was and raises nothing.
C24_FoldFrame ==
    (folds >= 1 /\ (~orig.hasIncluded \/ orig.data.kind # "list"))
    => (page = orig /\ ~foldErr)

\* a single-object document was folded that includes a record its object
\* references
C24_Witness ==
    /\ folds >= 1 /\ orig.hasIncluded /\ orig.data.kind = "dict"
    /\ \E j \in DOMAIN orig.data.obj.relationships :
          \E k \in DOMAIN RefsOf(orig.data.obj.relationships[j]) :
             Included(orig, RefsOf(orig.data.obj.relationships[j])[k])

\* C22: an attempt of a POST, PATCH or DELETE that times out or is answered
\* 401, 429 with quota remaining, or 500, while attempt budget remains, is
\* followed by another attempt of the same call.
C22_RetryAnyMethod ==
    [][(/\ Sends /\ method \in {"POST", "PATCH", "DELETE"}
        /\ attempt + 1 < retry
        /\ \/ resp'.kind = "timeout"
           \/ /\ resp'.kind = "response"
              /\ \/ resp'.status \in {401, 500}
                 \/ /\ Is429(resp')
                    /\ search_rem(resp'.header.entries).found
                    /\ search_rem(resp'.header.entries).rem > 0)
       => (reqState' = "running" /\ method' = method /\ json' = json)]_vars

\* C21: reading a declared relationship the record holds fetches nothing and
\* returns an accessor; every call of the accessor fetches once through the
\* related link, so that k calls cause k fetches.
C21_AccessorFetchesEachCall ==
    [][/\ calls' = calls
          => /\ relFetches' = relFetches
             /\ (/\ accRes'.item \in DOMAIN resource_relationships
                 /\ accRes'.item \in DOMAIN rdata.relationships)
                => accRes'.kind = "getter"
       /\ calls' = calls + 1
          => /\ relFetches' = relFetches + 1
             /\ accRes'.kind = "resources"
             /\ accRes'.url = rdata.relationships[getter.item].links.related]_vars

====
